---- MODULE Spec2Model ----
(***************************************************************************)
(* A model of the accounting MCP server: the flat-file ledger store        *)
(* (accounting_mcp/storage.py), the tool handlers (accounting_mcp/tools.py)*)
(* the JSON-RPC dispatcher and its stdio loop (accounting_mcp/server.py)   *)
(* and the HTTP transport (accounting_mcp/studio_server.py).               *)
(*                                                                         *)
(* Amounts are integers (the code adds floats in log order, and the        *)
(* balance is accumulated in the same order, so no rounding difference     *)
(* between the two sums is lost by this).  Time is counted in ticks.       *)
(* Of a transaction's description only one thing matters to the code: is   *)
(* it text the UTF-8 codec can write ("text"), or does it hold a lone      *)
(* surrogate, which JSON can express (an escape such as \ud800) and the     *)
(* codec cannot ("unencodable").  Tags behave as the description does and  *)
(* are not carried.  Names and identifiers are taken to be writable text.  *)
(***************************************************************************)
EXTENDS Integers, Sequences, FiniteSets, TLC

(***************************************************************************)
(* Bounds of the model.                                                    *)
(***************************************************************************)
MaxTx == 2            \* transactions created before the inputs stop adding
MaxBatch == 2         \* longest batch array
TicksPerSecond == 2   \* resolution of a timestamp within one second
SecondsPerDay == 1    \* scale of the model's calendar
DaysPerMonth == 2     \* scale of the model's calendar

\* the amounts the inputs use: an expense, nothing, an income
Amounts == {-50, 0, 5000}

(***************************************************************************)
(* Calendar.  Instant 0 is the first instant of month 1 of year 1.         *)
(***************************************************************************)
MonthsPerYear == 12
TicksPerDay == TicksPerSecond * SecondsPerDay
TicksPerMonth == TicksPerDay * DaysPerMonth
TicksPerYear == TicksPerMonth * MonthsPerYear

YearOf(t) == 1 + (t \div TicksPerYear)
MonthOf(t) == 1 + ((t % TicksPerYear) \div TicksPerMonth)
\* datetime(year, month, 1)
MonthStart(year, month) ==
    ((year - 1) * TicksPerYear) + ((month - 1) * TicksPerMonth)

(***************************************************************************)
(* Persisted documents.  A document is either well-formed JSON (valid) or  *)
(* an empty file left by open(path, 'w') before json.dump has written.     *)
(***************************************************************************)
DefaultCategories ==
    << [name |-> "food", type |-> "expense"],
       [name |-> "transport", type |-> "expense"],
       [name |-> "shopping", type |-> "expense"],
       [name |-> "entertainment", type |-> "expense"],
       [name |-> "salary", type |-> "income"],
       [name |-> "bonus", type |-> "income"],
       [name |-> "investment", type |-> "income"] >>

TxDoc(txs) == [valid |-> TRUE, data |-> txs]
AccountDoc(b) == [valid |-> TRUE, total_balance |-> b]
TruncatedTxDoc == [valid |-> FALSE, data |-> << >>]
\* the file json.dump leaves when a write fails half-way: _save_json catches
\* the UnicodeEncodeError, and what was written so far is not JSON
PartialTxDoc == [valid |-> FALSE, data |-> << >>]

\* _save_json(self.transactions_file, transactions)
SaveTxDoc(txs) ==
    IF \E i \in 1 .. Len(txs) : txs[i].description = "unencodable"
    THEN PartialTxDoc
    ELSE TxDoc(txs)
TruncatedAccountDoc == [valid |-> FALSE, total_balance |-> 0]

\* _load_json(self.transactions_file): a failed read yields `default or []`
LoadTransactions(doc) == IF doc.valid THEN doc.data ELSE << >>
\* _load_json(self.account_file, {"total_balance": 0.0})
LoadAccount(doc) == IF doc.valid THEN doc.total_balance ELSE 0
\* _load_json(self.categories_file) followed by Category(**c)
GetCategories(store) == store.categories_file

\* The three documents written by _init_default_data in an empty directory.
FreshStore ==
    [transactions_file |-> TxDoc(<< >>),
     account_file |-> AccountDoc(0),
     categories_file |-> DefaultCategories]

\* StorageManager.get_balance
GetBalance(store) == LoadAccount(store.account_file)

\* a slip: total_balance = amount
UpdateBalance_Overwrite(balance, amount) == amount

\* account_data["total_balance"] += transaction.amount
UpdateBalance(balance, amount) == balance + amount

\* transactions.append(transaction.model_dump())
AppendTransaction(txs, t) == Append(txs, t)

\* load the log, append, save the log
SaveTransaction(store, t) ==
    [store EXCEPT !.transactions_file =
        SaveTxDoc(AppendTransaction(LoadTransactions(store.transactions_file), t))]

\* load the account, add the amount, save the account
SaveBalance(store, amount) ==
    [store EXCEPT !.account_file =
        AccountDoc(UpdateBalance(LoadAccount(store.account_file), amount))]

\* StorageManager.add_transaction, run to completion without interleaving
StorageAddTransaction(store, t) ==
    SaveBalance(SaveTransaction(store, t), t.amount)

(***************************************************************************)
(* get_transactions: filter, then a stable sort by timestamp, descending.  *)
(***************************************************************************)
NoDate == [some |-> FALSE, t |-> 0]
Date(t) == [some |-> TRUE, t |-> t]

\* `if category and ...`: None and the empty string switch the filter off
CategoryFilterOn(category) == category # "absent" /\ category # ""

Selected(t, category, start_date, end_date) ==
    /\ ~(CategoryFilterOn(category) /\ t.category # category)
    /\ ~(start_date.some /\ t.timestamp < start_date.t)
    /\ ~(end_date.some /\ t.timestamp > end_date.t)

RECURSIVE FilterTransactions(_, _, _, _)
FilterTransactions(txs, category, start_date, end_date) ==
    IF txs = << >> THEN << >>
    ELSE LET rest == FilterTransactions(Tail(txs), category, start_date, end_date)
         IN  IF Selected(Head(txs), category, start_date, end_date)
             THEN << Head(txs) >> \o rest
             ELSE rest

\* insert t behind every element whose timestamp is >= t's (stable)
RECURSIVE InsertDescending(_, _)
InsertDescending(sorted, t) ==
    IF sorted = << >> THEN << t >>
    ELSE IF Head(sorted).timestamp >= t.timestamp
         THEN << Head(sorted) >> \o InsertDescending(Tail(sorted), t)
         ELSE << t >> \o sorted

RECURSIVE SortDescending(_)
SortDescending(txs) ==
    IF txs = << >> THEN << >>
    ELSE InsertDescending(SortDescending(SubSeq(txs, 1, Len(txs) - 1)),
                          txs[Len(txs)])

\* a slip: the selected transactions are returned in the log's order
GetTransactions_Unsorted(store, category, start_date, end_date) ==
    FilterTransactions(LoadTransactions(store.transactions_file),
                       category, start_date, end_date)

GetTransactions(store, category, start_date, end_date) ==
    SortDescending(FilterTransactions(LoadTransactions(store.transactions_file),
                                      category, start_date, end_date))

(***************************************************************************)
(* Parameters of a call.  `shape` is "absent" when the envelope has no     *)
(* params member, "object" for a JSON object and "other" for any JSON      *)
(* value that is not a mapping.  A key that is not supplied holds "absent" *)
(* (strings) or some = FALSE (numbers).                                    *)
(***************************************************************************)
NoNumber == [some |-> FALSE, v |-> 0]
Number(n) == [some |-> TRUE, v |-> n]

NoParams ==
    [shape |-> "absent", akind |-> "absent", amount |-> 0,
     category |-> "absent", description |-> "absent",
     days |-> NoNumber, year |-> NoNumber,
     month |-> NoNumber, command |-> "absent", spoken |-> 0]

\* the keys present in the params object
Keys(p) ==
    {k \in {"amount", "category", "description", "days", "year", "month",
            "command"} :
        \/ k = "amount" /\ p.akind # "absent"
        \/ k = "category" /\ p.category # "absent"
        \/ k = "description" /\ p.description # "absent"
        \/ k = "days" /\ p.days.some
        \/ k = "year" /\ p.year.some
        \/ k = "month" /\ p.month.some
        \/ k = "command" /\ p.command # "absent"}

NoExc == [kind |-> "none", arg |-> "none"]
Exc(kind, arg) == [kind |-> kind, arg |-> arg]

\* the signature of each handler in tools.py / server.py
RequiredKeys(method) ==
    CASE method = "add_transaction" -> {"amount", "category"}
      [] method = "process_voice_command" -> {"command"}
      [] OTHER -> {}

AllowedKeys(method) ==
    CASE method = "add_transaction" -> {"amount", "category", "description", "tags"}
      [] method = "get_balance" -> {}
      [] method = "list_transactions" -> {"category", "days"}
      [] method = "get_monthly_summary" -> {"year", "month"}
      [] method = "process_voice_command" -> {"command"}
      [] OTHER -> {}

MissingArg(missing) ==
    IF missing = {"amount", "category"} THEN "amount and category"
    ELSE CHOOSE k \in missing : TRUE

\* a slip: a missing required argument goes unnoticed
BindError_NoRequired(method, p) ==
    IF p.shape = "other" THEN Exc("TypeError: not a mapping", "params")
    ELSE IF Keys(p) \ AllowedKeys(method) # {}
         THEN Exc("TypeError: unexpected keyword argument",
                  CHOOSE k \in Keys(p) \ AllowedKeys(method) : TRUE)
    ELSE NoExc

\* self.tools[method](**params): the TypeError raised by the call itself,
\* before the handler's body runs (NoExc when the call binds)
BindError(method, p) ==
    IF p.shape = "other" THEN Exc("TypeError: not a mapping", "params")
    ELSE IF Keys(p) \ AllowedKeys(method) # {}
         THEN Exc("TypeError: unexpected keyword argument",
                  CHOOSE k \in Keys(p) \ AllowedKeys(method) : TRUE)
    ELSE IF RequiredKeys(method) \ Keys(p) # {}
         THEN Exc("TypeError: missing required argument",
                  MissingArg(RequiredKeys(method) \ Keys(p)))
    ELSE NoExc

(***************************************************************************)
(* Outcome of a handler: the store it leaves, the amounts of the            *)
(* transactions it handed to the store (`created`, in order: one           *)
(* identifier is drawn from uuid4 for each), and either a returned result  *)
(* or a raised exception.                                                  *)
(***************************************************************************)
NoResult == [kind |-> "none"]
Returned(store, created, result) ==
    [store |-> store, created |-> created, raised |-> FALSE, exc |-> NoExc,
     result |-> result]
Raised(store, created, exc) ==
    [store |-> store, created |-> created, raised |-> TRUE, exc |-> exc,
     result |-> NoResult]

CategoryNames(store) ==
    [i \in 1 .. Len(GetCategories(store)) |-> GetCategories(store)[i].name]
SeqRange(s) == {s[i] : i \in 1 .. Len(s)}

\* a slip: the category is not checked
CategoryKnown_Unchecked(store, category) == TRUE

\* `category not in categories`
CategoryKnown(store, category) == category \in SeqRange(CategoryNames(store))

\* a slip: the unknown category is reported by raising
CategoryRejected_Raises(store, category) ==
    Raised(store, << >>, Exc("ValueError: category does not exist", category))

\* the result returned for a category that does not exist
CategoryRejected(store, category) ==
    Returned(store, << >>,
             [kind |-> "add_transaction", success |-> FALSE,
              error |-> [tmpl |-> "category does not exist", name |-> category],
              available_categories |-> CategoryNames(store)])

\* Transaction(amount=..., category=...), with the identifier the store
\* gives it and the timestamp of its creation
NewTransaction(id, amount, category, description, now) ==
    [id |-> id, amount |-> amount, category |-> category,
     description |-> description, timestamp |-> now]

\* the end of add_transaction, with the transaction saved: read the balance
\* and build the result
AddResult(akind, amount, t, saved) ==
    IF akind = "numstr"
    \* the message evaluates amount > 0 on the caller's string
    THEN Raised(saved, << t.amount >>,
                Exc("TypeError: '>' not supported", "amount"))
    ELSE Returned(saved, << t.amount >>,
                  [kind |-> "add_transaction", success |-> TRUE,
                   transaction |-> t,
                   current_balance |-> GetBalance(saved),
                   message |-> IF amount > 0 THEN "income added"
                               ELSE "expense added"])

\* AccountingTools.add_transaction(amount, category), after the call bound.
\* akind: "num" a JSON number, "numstr" a numeric string (coerced by the
\* Transaction model), "badstr" a value the model's float field rejects.
ToolsAddTransaction(store, akind, amount, category, description, now, next_id) ==
    IF ~CategoryKnown(store, category)
    THEN CategoryRejected(store, category)
    ELSE IF akind = "badstr"
    THEN Raised(store, << >>, Exc("ValidationError", "amount"))
    ELSE AddResult(akind, amount,
                   NewTransaction(next_id, amount, category, description, now),
                   StorageAddTransaction(store,
                       NewTransaction(next_id, amount, category, description,
                                      now)))

\* AccountingTools.get_balance
\* a slip: an account document that cannot be read is reported
ToolsGetBalance_Surfaces(store) ==
    IF store.account_file.valid
    THEN Returned(store, << >>,
                  [kind |-> "get_balance", balance |-> GetBalance(store)])
    ELSE Raised(store, << >>, Exc("JSONDecodeError", "account.json"))

ToolsGetBalance(store) ==
    Returned(store, << >>, [kind |-> "get_balance", balance |-> GetBalance(store)])

\* a slip: listing starts the log afresh
ListResult_Clears(store, txs) ==
    Returned([store EXCEPT !.transactions_file = TxDoc(<< >>)], << >>,
             [kind |-> "list_transactions", transactions |-> txs,
              count |-> Len(txs)])

\* AccountingTools.list_transactions(category, days)
ListResult(store, txs) ==
    Returned(store, << >>,
             [kind |-> "list_transactions", transactions |-> txs,
              count |-> Len(txs)])

ToolsListTransactions(store, category, days, now) ==
    ListResult(store,
               GetTransactions(store, category,
                               \* `if days:` a zero is no filter
                               IF days.some /\ days.v # 0
                               THEN Date(now - (days.v * TicksPerDay))
                               ELSE NoDate,
                               NoDate))

RECURSIVE SumIncome(_)
SumIncome(txs) ==
    IF txs = << >> THEN 0
    ELSE (IF Head(txs).amount > 0 THEN Head(txs).amount ELSE 0)
         + SumIncome(Tail(txs))

RECURSIVE SumExpense(_)
SumExpense(txs) ==
    IF txs = << >> THEN 0
    ELSE (IF Head(txs).amount < 0 THEN 0 - Head(txs).amount ELSE 0)
         + SumExpense(Tail(txs))

ExpenseCategories(txs) ==
    {txs[i].category : i \in {j \in 1 .. Len(txs) : txs[j].amount < 0}}

CategoryExpenses(txs) ==
    [c \in ExpenseCategories(txs) |->
        SumExpense(FilterTransactions(txs, c, NoDate, NoDate))]

\* AccountingTools.get_monthly_summary(year, month)
\* the last instant of the month: the start of the next month, less a second
MonthEnd(target_year, target_month) ==
    (IF target_month = MonthsPerYear
     THEN MonthStart(target_year + 1, 1)
     ELSE MonthStart(target_year, target_month + 1))
    - TicksPerSecond

\* a slip: every transaction's category is entered, incomes included
SummaryResult_AllCategories(store, target_year, target_month, txs) ==
    Returned(store, << >>,
             [kind |-> "get_monthly_summary",
              summary |->
                  [year |-> target_year, month |-> target_month,
                   total_income |-> SumIncome(txs),
                   total_expense |-> SumExpense(txs),
                   balance_change |-> SumIncome(txs) - SumExpense(txs),
                   category_expenses |->
                       [c \in {txs[i].category : i \in 1 .. Len(txs)} |->
                           SumExpense(FilterTransactions(txs, c, NoDate,
                                                         NoDate))]]])

\* the sums over the month's transactions and the MonthlySummary built of them
SummaryResult(store, target_year, target_month, txs) ==
    Returned(store, << >>,
             [kind |-> "get_monthly_summary",
              summary |->
                  [year |-> target_year, month |-> target_month,
                   total_income |-> SumIncome(txs),
                   total_expense |-> SumExpense(txs),
                   balance_change |-> SumIncome(txs) - SumExpense(txs),
                   category_expenses |-> CategoryExpenses(txs)]])

\* get_monthly_summary once the target year and month are settled
SummaryOfMonth(store, target_year, target_month) ==
    IF target_month \notin 1 .. MonthsPerYear \/ target_year < 1
    \* datetime(target_year, target_month, 1) rejects the values
    THEN Raised(store, << >>, Exc("ValueError", "month"))
    ELSE SummaryResult(store, target_year, target_month,
                       GetTransactions(store, "absent",
                           Date(MonthStart(target_year, target_month)),
                           Date(MonthEnd(target_year, target_month))))

ToolsGetMonthlySummary(store, year, month, now) ==
    SummaryOfMonth(store,
                   \* `year or now.year`, `month or now.month`
                   IF year.some /\ year.v # 0 THEN year.v ELSE YearOf(now),
                   IF month.some /\ month.v # 0 THEN month.v ELSE MonthOf(now))

(***************************************************************************)
(* MCPServer keeps a StorageManager of its own (self.storage, on DATA_DIR) *)
(* next to the one inside accounting_tools (on "data" under the working    *)
(* directory).  When both name the same directory (same_dir) they are the  *)
(* same documents; otherwise nothing ever writes the server's documents.   *)
(***************************************************************************)
ServerStore(store, same_dir) == IF same_dir THEN store ELSE FreshStore

\* MCPServer._auto_classify: `mapped` is the category_map entry matched by
\* the description ("none" when no keyword occurs in it)
AutoClassify(server_store, mapped) ==
    LET names == CategoryNames(server_store)
    IN  IF mapped # "none" /\ mapped \in SeqRange(names) THEN mapped
        ELSE IF "other" \in SeqRange(names) THEN "other"
        ELSE IF names # << >> THEN names[1]
        ELSE "uncategorized"

\* the reply of a voice command that ran the tool call r
VoiceReply(r) ==
    IF r.raised THEN r
    ELSE Returned(r.store, r.created,
                  [kind |-> "voice",
                   success |-> IF r.result.kind = "add_transaction"
                               THEN r.result.success ELSE TRUE,
                   data |-> r.result])

\* the reply of the command that lists the categories
VoiceCategories(store, names) ==
    Returned(store, << >>,
             [kind |-> "voice", success |-> TRUE,
              data |-> [kind |-> "categories", categories |-> names,
                        count |-> Len(names)]])

\* MCPServer.process_voice_command(command).  The command is given by the
\* branch its text selects; `spoken` is the number captured from the text.
ProcessVoiceCommand(store, same_dir, command, spoken, now, next_id) ==
    CASE command = "nonstring" ->
            Raised(store, << >>, Exc("AttributeError", "lower"))
      [] command = "balance" -> VoiceReply(ToolsGetBalance(store))
      [] command = "month" ->
            VoiceReply(ToolsGetMonthlySummary(store, NoNumber, NoNumber, now))
      [] command = "recent" ->
            VoiceReply(ToolsListTransactions(store, "absent", Number(spoken), now))
      [] command = "add" ->
            VoiceReply(ToolsAddTransaction(store, "num", 0 - spoken,
                           AutoClassify(ServerStore(store, same_dir), "catering"),
                           \* the description is the \w+ the pattern captured
                           "text", now, next_id))
      [] command = "categories" ->
            VoiceCategories(store, CategoryNames(ServerStore(store, same_dir)))
      [] OTHER ->
            Returned(store, << >>,
                     [kind |-> "voice", success |-> FALSE,
                      data |-> [kind |-> "unrecognized_command"]])

\* a slip: the voice command handler is not entered in the table
Tools_WithoutVoice ==
    {"add_transaction", "get_balance", "list_transactions",
     "get_monthly_summary"}

\* self.tools: the method table built in MCPServer.__init__
Tools ==
    {"add_transaction", "get_balance", "list_transactions",
     "get_monthly_summary", "process_voice_command"}

\* self.resources
Resources == {"transactions://all", "categories://all", "summary://current"}

\* self.tools[method](**params)
InvokeTool(method, p, store, same_dir, now, next_id) ==
    IF BindError(method, p) # NoExc
    THEN Raised(store, << >>, BindError(method, p))
    ELSE CASE method = "add_transaction" ->
                ToolsAddTransaction(store, p.akind, p.amount, p.category,
                                    p.description, now, next_id)
           [] method = "get_balance" -> ToolsGetBalance(store)
           [] method = "list_transactions" ->
                ToolsListTransactions(store, p.category, p.days, now)
           [] method = "get_monthly_summary" ->
                ToolsGetMonthlySummary(store, p.year, p.month, now)
           [] method = "process_voice_command" ->
                ProcessVoiceCommand(store, same_dir, p.command, p.spoken,
                                    now, next_id)

\* MCPServer._get_all_transactions, on the server's own documents
GetAllTransactions(store, txs) ==
    Returned(store, << >>,
             [kind |-> "transactions", transactions |-> txs, count |-> Len(txs)])

\* MCPServer._get_all_categories, on the server's own documents
GetAllCategories(store, server_store) ==
    Returned(store, << >>,
             [kind |-> "categories",
              categories |-> CategoryNames(server_store),
              count |-> Len(GetCategories(server_store))])

\* MCPServer._get_current_summary: the balance of the server's own documents
\* and the monthly summary m of accounting_tools
GetCurrentSummary(store, server_store, m) ==
    IF m.raised THEN m
    ELSE Returned(store, << >>,
                  [kind |-> "summary",
                   balance |-> GetBalance(server_store),
                   monthly_summary |-> m.result.summary])

\* self.resources[resource]()
FetchResource(resource, store, same_dir, now) ==
    CASE resource = "transactions://all" ->
            GetAllTransactions(store,
                GetTransactions(ServerStore(store, same_dir), "absent",
                                NoDate, NoDate))
      [] resource = "categories://all" ->
            GetAllCategories(store, ServerStore(store, same_dir))
      [] resource = "summary://current" ->
            GetCurrentSummary(store, ServerStore(store, same_dir),
                ToolsGetMonthlySummary(store, NoNumber, NoNumber, now))

(***************************************************************************)
(* Envelopes.  `members` is the set of keys of the JSON object; a member   *)
(* that is not in it holds a placeholder.                                  *)
(***************************************************************************)
NoMessage == [tmpl |-> "none", name |-> "none", exc |-> NoExc]
NoError == [code |-> 0, message |-> NoMessage, data |-> FALSE]
NoEnvelope ==
    [members |-> {}, jsonrpc |-> "none", id |-> "none", error |-> NoError,
     result |-> NoResult]

ErrorEnvelope(id, code, tmpl, name, exc, data) ==
    [members |-> {"jsonrpc", "error", "id"}, jsonrpc |-> "2.0", id |-> id,
     error |-> [code |-> code,
                message |-> [tmpl |-> tmpl, name |-> name, exc |-> exc],
                data |-> data],
     result |-> NoResult]

ResultEnvelope(id, result) ==
    [members |-> {"jsonrpc", "result", "id"}, jsonrpc |-> "2.0", id |-> id,
     error |-> NoError, result |-> result]

\* a slip: the identifier is not carried over
RequestId_Dropped(request) == "null"

\* request.get("id")
RequestId(request) == IF request.id = "absent" THEN "null" ELSE request.id

\* what handle_request hands back: the store it leaves, and either the
\* envelope it returned or an exception that escaped it
Answered(store, created, response) ==
    [store |-> store, created |-> created, escaped |-> FALSE,
     response |-> response]
Escaped(store) ==
    [store |-> store, created |-> << >>, escaped |-> TRUE,
     response |-> NoEnvelope]

\* the reply to a method call whose handler returned or raised
MethodReply(request, r) ==
    IF r.raised
    THEN Answered(r.store, r.created,
                  ErrorEnvelope(RequestId(request), -32602,
                                "method execution error", "none", r.exc, TRUE))
    ELSE Answered(r.store, r.created,
                  ResultEnvelope(RequestId(request), r.result))

\* the reply to a resource fetch whose getter returned or raised
ResourceReply(request, store, r) ==
    IF r.raised
    THEN Answered(store, << >>,
                  ErrorEnvelope(RequestId(request), -32602,
                                "resource access error", "none", r.exc, FALSE))
    ELSE Answered(store, << >>, ResultEnvelope(RequestId(request), r.result))

\* a slip: the unknown method is reported without its name
MethodNotFound_Nameless(request, store) ==
    Answered(store, << >>,
             ErrorEnvelope(RequestId(request), -32601, "method does not exist",
                           "none", NoExc, FALSE))

\* the reply to a method name that is not in self.tools
MethodNotFound(request, store) ==
    Answered(store, << >>,
             ErrorEnvelope(RequestId(request), -32601, "method does not exist",
                           request.method, NoExc, FALSE))

\* a slip: any tag that is present is accepted
ValidTag_AnyVersion(request) == request.jsonrpc # "absent"

\* "jsonrpc" in request and request["jsonrpc"] == "2.0"
ValidTag(request) == request.jsonrpc = "2.0"

\* MCPServer.handle_request.  A request that is not a JSON object makes the
\* membership test or request.get fail, and request.get("id") in the outer
\* handler fail again, so the AttributeError leaves handle_request.
\* "unhashable" stands for a method or resource given as a JSON array or
\* object: the table lookup raises TypeError, caught by the outer handler.
HandleRequest(request, store, same_dir, now, next_id) ==
    IF request.type # "object" THEN Escaped(store)
    ELSE IF ~ValidTag(request)
    THEN Answered(store, << >>,
                  ErrorEnvelope(RequestId(request), -32600, "invalid request",
                                "none", NoExc, FALSE))
    ELSE IF request.method # "absent"
    THEN IF request.method = "unhashable"
         THEN Answered(store, << >>,
                       ErrorEnvelope(RequestId(request), -32603, "internal error",
                                     "none", Exc("TypeError: unhashable", "method"),
                                     TRUE))
         ELSE IF request.method \notin Tools
         THEN MethodNotFound(request, store)
         ELSE MethodReply(request,
                          InvokeTool(request.method, request.params, store,
                                     same_dir, now, next_id))
    ELSE IF request.resource # "absent"
    THEN IF request.resource = "unhashable"
         THEN Answered(store, << >>,
                       ErrorEnvelope(RequestId(request), -32603, "internal error",
                                     "none", Exc("TypeError: unhashable", "resource"),
                                     TRUE))
         ELSE IF request.resource \notin Resources
         THEN Answered(store, << >>,
                       ErrorEnvelope(RequestId(request), -32601,
                                     "resource does not exist", request.resource,
                                     NoExc, FALSE))
         ELSE ResourceReply(request, store,
                            FetchResource(request.resource, store, same_dir, now))
    ELSE Answered(store, << >>,
                  ErrorEnvelope(RequestId(request), -32600,
                                "request must contain method or resource",
                                "none", NoExc, FALSE))

(***************************************************************************)
(* Batches: the loop shared by MCPServer.run and do_POST.                  *)
(***************************************************************************)
\* `if response and "id" in response`
Eligible(response) == response.members # {} /\ "id" \in response.members

RECURSIVE HandleBatch(_, _, _, _, _, _, _)

\* the body of the loop after handle_request(req) has handed back r: the
\* exception leaves the loop, or the response is kept and the loop goes on
BatchStep(rest, r, same_dir, now, next_id, created, responses) ==
    IF r.escaped
    THEN [store |-> r.store, created |-> created, escaped |-> TRUE,
          responses |-> responses]
    ELSE HandleBatch(rest, r.store, same_dir, now,
                     next_id + Len(r.created), created \o r.created,
                     IF Eligible(r.response)
                     THEN Append(responses, r.response)
                     ELSE responses)

\* for req in request: response = handle_request(req); ... append
HandleBatch(reqs, store, same_dir, now, next_id, created, responses) ==
    IF reqs = << >>
    THEN [store |-> store, created |-> created, escaped |-> FALSE,
          responses |-> responses]
    ELSE BatchStep(Tail(reqs),
                   HandleRequest(Head(reqs), store, same_dir, now, next_id),
                   same_dir, now, next_id, created, responses)

ParseErrorEnvelope ==
    ErrorEnvelope("null", -32700, "JSON parse error", "none", NoExc, FALSE)

(***************************************************************************)
(* Inputs.                                                                 *)
(***************************************************************************)
Env(jsonrpc, id, method, resource, params) ==
    [type |-> "object", jsonrpc |-> jsonrpc, id |-> id, method |-> method,
     resource |-> resource, params |-> params]

\* a JSON value that is not an object: "number", "string", "null", "array"
NonObject(type) ==
    [type |-> type, jsonrpc |-> "absent", id |-> "absent", method |-> "absent",
     resource |-> "absent", params |-> NoParams]

ObjectParams == [NoParams EXCEPT !.shape = "object"]
OtherParams == [NoParams EXCEPT !.shape = "other"]

AddParams(akind, amount, category) ==
    [ObjectParams EXCEPT !.akind = akind, !.amount = amount,
                         !.category = category]

AddParamsInputs ==
    {AddParams("num", a, "food") : a \in Amounts}
    \cup {AddParams("num", 5000, "salary"),
          AddParams("numstr", 5000, "food"),
          AddParams("badstr", 0, "food"),
          AddParams("num", 5000, "nonexistent"),
          AddParams("numstr", 5000, "nonexistent"),
          AddParams("absent", 0, "nonexistent"),
          AddParams("absent", 0, "food"),
          AddParams("num", 5000, "absent"),
          [AddParams("num", -50, "food") EXCEPT !.description = "text"],
          [AddParams("num", 5000, "food") EXCEPT !.description = "unencodable"],
          [AddParams("num", 5000, "nonexistent") EXCEPT
              !.description = "unencodable"],
          ObjectParams, NoParams, OtherParams}

ListParamsInputs ==
    {[ObjectParams EXCEPT !.category = c] : c \in {"absent", "", "food"}}
    \cup {[ObjectParams EXCEPT !.days = d] : d \in {Number(0), Number(1)}}

MonthParamsInputs ==
    {[ObjectParams EXCEPT !.month = m] :
        m \in {NoNumber, Number(0), Number(1), Number(13)}}
    \cup {[ObjectParams EXCEPT !.year = Number(1), !.month = Number(1)]}

VoiceParamsInputs ==
    {[ObjectParams EXCEPT !.command = c] :
        c \in {"nonstring", "balance", "month", "categories", "unknown"}}
    \cup {[ObjectParams EXCEPT !.command = "add", !.spoken = n] : n \in {0, 50}}
    \cup {[ObjectParams EXCEPT !.command = "recent", !.spoken = n] : n \in {0, 1}}

MethodCalls ==
    {<<"add_transaction", p>> : p \in AddParamsInputs}
    \cup {<<"get_balance", p>> :
            p \in {NoParams, ObjectParams, AddParams("num", 5000, "food")}}
    \cup {<<"list_transactions", p>> : p \in ListParamsInputs}
    \cup {<<"get_monthly_summary", p>> : p \in MonthParamsInputs}
    \cup {<<"process_voice_command", p>> : p \in VoiceParamsInputs \cup {NoParams}}
    \cup {<<m, p>> : m \in {"unknown_method", "unhashable"},
                     p \in {NoParams, AddParams("num", 5000, "food")}}

ResourceInputs == Resources \cup {"unknown://resource", "unhashable"}

Ids == {"absent", "null", "7", "8"}

Requests ==
    \* well-tagged method calls
    {Env("2.0", "7", c[1], "absent", c[2]) : c \in MethodCalls}
    \* well-tagged resource fetches, with and without an id
    \cup {Env("2.0", i, "absent", r, NoParams) :
            i \in {"absent", "8"}, r \in ResourceInputs}
    \* envelopes with both a method and a resource, or with neither
    \cup {Env("2.0", "7", m, r, AddParams("num", 5000, "food")) :
            m \in {"add_transaction", "unknown_method"},
            r \in {"transactions://all", "unknown://resource"}}
    \cup {Env("2.0", i, "absent", "absent", NoParams) : i \in {"absent", "7"}}
    \* envelopes whose protocol tag is absent or wrong
    \cup {Env(j, i, "add_transaction", "absent",
               AddParams("num", 5000, "food")) :
            j \in {"absent", "1.0"}, i \in Ids \ {"8"}}
    \cup {Env(j, "7", c[1], c[2], NoParams) :
            j \in {"absent", "1.0"},
            c \in {<<"absent", "absent">>, <<"absent", "transactions://all">>,
                   <<"unknown_method", "absent">>,
                   <<"absent", "unknown://resource">>,
                   <<"get_balance", "unknown://resource">>}}
    \* notifications and null ids on method calls
    \cup {Env("2.0", i, c[1], "absent", c[2]) :
            i \in {"absent", "null"},
            c \in {<<"add_transaction", AddParams("num", 5000, "food")>>,
                   <<"add_transaction", AddParams("num", 5000, "nonexistent")>>,
                   <<"get_balance", NoParams>>}}
    \* JSON values that are not objects
    \cup {NonObject(t) : t \in {"number", "string", "null"}}

\* the elements batches are built from
BatchElements ==
    {Env("2.0", "7", "add_transaction", "absent",
         AddParams("num", 5000, "food")),
     Env("2.0", "absent", "add_transaction", "absent",
         AddParams("num", -50, "salary")),
     Env("2.0", "8", "get_balance", "absent", NoParams),
     Env("2.0", "absent", "get_balance", "absent", NoParams),
     Env("absent", "null", "get_balance", "absent", NoParams),
     NonObject("array")}

RECURSIVE SeqsUpTo(_, _)
SeqsUpTo(S, n) ==
    IF n = 0 THEN {<< >>}
    ELSE SeqsUpTo(S, n - 1)
         \cup {Append(q, e) : q \in {q \in SeqsUpTo(S, n - 1) : Len(q) = n - 1},
                              e \in S}

Batches == SeqsUpTo(BatchElements, MaxBatch)

\* what a transport reads: a line of stdin, or the body of a POST.
\* "invalid" is text json.loads rejects with JSONDecodeError; "overdeep" is
\* text that is not JSON either (brackets opened and never closed) but nested
\* so deep that json.loads raises RecursionError before it finds that out.
Line(kind, reqs) == [kind |-> kind, reqs |-> reqs]
Bodies ==
    {Line("invalid", << >>), Line("overdeep", << >>)}
    \cup {Line("single", << r >>) : r \in Requests}
    \cup {Line("batch", b) : b \in Batches}
Lines == Bodies \cup {Line("eof", << >>), Line("blank", << >>)}

AuthHeaders == {"absent", "Bearer secret", "Bearer wrong"}

\* the POSTs: every body with the configured secret, and some bodies with
\* no Authorization header or a wrong one
Posts ==
    {<<"Bearer secret", b>> : b \in Bodies}
    \cup {<<a, b>> :
            a \in AuthHeaders \ {"Bearer secret"},
            b \in {Line("invalid", << >>),
                   Line("single", << Env("2.0", "7", "add_transaction", "absent",
                                         AddParams("num", 5000, "food")) >>),
                   Line("single", << Env("2.0", "7", "get_balance", "absent",
                                         NoParams) >>),
                   Line("batch", << >>)}}

(***************************************************************************)
(* The two transports, as functions of what they read.  An outcome names   *)
(* the store left behind, the identifiers drawn, whether the process goes  *)
(* on, and what is written back: nothing ("none"), one envelope ("single"),*)
(* an array of envelopes ("array") or the unauthorized payload.            *)
(***************************************************************************)
Outcome(store, created, alive, status, form, envs) ==
    [store |-> store, created |-> created, alive |-> alive, status |-> status,
     form |-> form, envs |-> envs]

\* the envelope holds a string the UTF-8 codec cannot write: the description
\* of the transaction a successful add_transaction hands back
Unwritable(response) ==
    /\ "result" \in response.members
    /\ response.result.kind = "add_transaction"
    /\ response.result.success
    /\ response.result.transaction.description = "unencodable"

AnyUnwritable(responses) ==
    \E i \in 1 .. Len(responses) : Unwritable(responses[i])

\* run's single branch: an exception that left handle_request, or the
\* UnicodeEncodeError of print, ends the loop (the handler outside `while`)
\* with nothing written; otherwise the response is printed
RunSingle(r) ==
    IF r.escaped \/ Unwritable(r.response)
    THEN Outcome(r.store, r.created, FALSE, 0, "none", << >>)
    ELSE Outcome(r.store, r.created, TRUE, 0, "single", << r.response >>)

\* run's batch branch: `if responses: print(...)`
RunBatch(r) ==
    IF r.escaped \/ AnyUnwritable(r.responses)
    THEN Outcome(r.store, r.created, FALSE, 0, "none", << >>)
    ELSE IF r.responses # << >>
    THEN Outcome(r.store, r.created, TRUE, 0, "array", r.responses)
    ELSE Outcome(r.store, r.created, TRUE, 0, "none", << >>)

\* one iteration of the while loop of MCPServer.run
RunOutcome(line, store, same_dir, now, next_id) ==
    CASE line.kind = "eof" -> Outcome(store, << >>, FALSE, 0, "none", << >>)
      [] line.kind = "blank" -> Outcome(store, << >>, TRUE, 0, "none", << >>)
      [] line.kind = "invalid" ->
            Outcome(store, << >>, TRUE, 0, "single", << ParseErrorEnvelope >>)
      \* not a JSONDecodeError: caught by the handler outside `while`
      [] line.kind = "overdeep" -> Outcome(store, << >>, FALSE, 0, "none", << >>)
      [] line.kind = "single" ->
            RunSingle(HandleRequest(line.reqs[1], store, same_dir, now, next_id))
      [] line.kind = "batch" ->
            RunBatch(HandleBatch(line.reqs, store, same_dir, now, next_id,
                                 << >>, << >>))

\* a slip: the Authorization header is not looked at
Unauthorized_Never(api_key, auth) == FALSE

\* STUDIO_API_KEY and Authorization != f'Bearer {STUDIO_API_KEY}'
Unauthorized(api_key, auth) ==
    api_key # "" /\ ~(api_key = "secret" /\ auth = "Bearer secret")

InternalErrorEnvelope ==
    ErrorEnvelope("null", -32603, "internal error", "none",
                  Exc("AttributeError", "get"), TRUE)

\* do_POST's last handler, reached from json.loads
ParseFaultEnvelope ==
    ErrorEnvelope("null", -32603, "internal error", "none",
                  Exc("RecursionError", "json.loads"), TRUE)

\* the status line and headers of 200 are out when encode('utf-8') raises;
\* the last handler then writes a second status line (500), headers and an
\* error envelope, which the client receives as the body of the 200
Garbled(r) == Outcome(r.store, r.created, TRUE, 200, "garbled", << >>)

\* do_POST's single branch: an exception that left handle_request is
\* answered with status 500; otherwise the response is written with 200
PostSingle(r) ==
    IF r.escaped
    THEN Outcome(r.store, r.created, TRUE, 500, "single",
                 << InternalErrorEnvelope >>)
    ELSE IF Unwritable(r.response)
    THEN Garbled(r)
    ELSE Outcome(r.store, r.created, TRUE, 200, "single", << r.response >>)

\* do_POST's batch branch: response_data = responses, written as it is
PostBatch(r) ==
    IF r.escaped
    THEN Outcome(r.store, r.created, TRUE, 500, "single",
                 << InternalErrorEnvelope >>)
    ELSE IF AnyUnwritable(r.responses)
    THEN Garbled(r)
    ELSE Outcome(r.store, r.created, TRUE, 200, "array", r.responses)

\* StudioRequestHandler.do_POST
PostOutcome(auth, body, api_key, store, same_dir, now, next_id) ==
    IF Unauthorized(api_key, auth)
    THEN Outcome(store, << >>, TRUE, 401, "unauthorized", << >>)
    ELSE CASE body.kind = "invalid" ->
                Outcome(store, << >>, TRUE, 400, "single", << ParseErrorEnvelope >>)
           \* not a JSONDecodeError: answered by `except Exception`
           [] body.kind = "overdeep" ->
                Outcome(store, << >>, TRUE, 500, "single", << ParseFaultEnvelope >>)
           [] body.kind = "single" ->
                PostSingle(HandleRequest(body.reqs[1], store, same_dir, now,
                                         next_id))
           [] body.kind = "batch" ->
                PostBatch(HandleBatch(body.reqs, store, same_dir, now, next_id,
                                      << >>, << >>))

(***************************************************************************)
(* State.                                                                  *)
(***************************************************************************)
VARIABLES
    store,      \* the documents of accounting_tools.storage
    same_dir,   \* MCPServer.storage is on the same directory
    api_key,    \* STUDIO_API_KEY ("" when not configured)
    now,        \* datetime.now()
    next_id,    \* the next identifier uuid4 hands out
    running,    \* the process is alive (MCPServer.run has not returned)
    last,       \* the exchange just made: what a transport read and wrote
    pc,         \* per thread: position inside a store call in progress
    local       \* per thread: the local variables of that call

vars == <<store, same_dir, api_key, now, next_id, running, last, pc, local>>

Threads == {"stdio", "http"}

NoTransaction ==
    [id |-> 0, amount |-> 0, category |-> "none", description |-> "absent",
     timestamp |-> 0]
NoLocal ==
    [transaction |-> NoTransaction, transactions |-> << >>,
     total_balance |-> 0, returned |-> "none", current_balance |-> 0]

Exchange(transport, auth, input, o) ==
    [transport |-> transport, auth |-> auth, input |-> input,
     status |-> o.status, form |-> o.form, envs |-> o.envs,
     created |-> o.created]

\* no exchange is on record: both transports wait for input
NoExchange ==
    Exchange("none", "absent", Line("blank", << >>),
             Outcome(FreshStore, << >>, TRUE, 0, "none", << >>))

Init ==
    /\ store = FreshStore
    /\ same_dir \in BOOLEAN
    /\ api_key \in {"", "secret"}
    /\ now = 0
    /\ next_id = 1
    /\ running = TRUE
    /\ last = NoExchange
    /\ pc = [th \in Threads |-> "idle"]
    /\ local = [th \in Threads |-> NoLocal]

\* a transport has handled its input to completion with outcome o
Complete(transport, auth, input, o) ==
    /\ next_id + Len(o.created) <= MaxTx + 1
    /\ store' = o.store
    /\ next_id' = next_id + Len(o.created)
    /\ running' = o.alive
    /\ last' = Exchange(transport, auth, input, o)
    /\ UNCHANGED <<same_dir, api_key, now, pc, local>>

\* MCPServer.run reads one line and handles it to completion
RunLoop(line) ==
    Complete("stdio", "absent", line,
             RunOutcome(line, store, same_dir, now, next_id))

\* the stdio loop is at readline() and the next line arrives
StdioStep ==
    /\ running
    /\ last = NoExchange
    /\ \E line \in Lines : RunLoop(line)

\* the HTTP server handles one POST to completion
DoPost(auth, body) ==
    Complete("http", auth, body,
             PostOutcome(auth, body, api_key, store, same_dir, now, next_id))

\* the HTTP server accepts the next POST
HttpStep ==
    /\ running
    /\ last = NoExchange
    /\ \E post \in Posts : DoPost(post[1], post[2])

\* the output has been written and flushed; the transport is back at
\* readline() or at accepting the next connection
NextExchange ==
    /\ running
    /\ last # NoExchange
    /\ last' = NoExchange
    /\ UNCHANGED <<store, same_dir, api_key, now, next_id, running, pc, local>>

Next ==
    \/ StdioStep
    \/ HttpStep
    \/ NextExchange

\* requests are handled one at a time
Spec == Init /\ [][Next]_vars

(***************************************************************************)
(* The same store under two threads.  StudioMCPRunner runs the stdio loop  *)
(* on the main thread and the HTTP server on a daemon thread; both reach   *)
(* accounting_tools.storage, and nothing serialises the calls.  A call of  *)
(* AccountingTools.add_transaction is taken one file operation at a time.  *)
(* Two writers of one file are taken as last-writer-wins.                  *)
(***************************************************************************)
\* AccountingTools.add_transaction up to storage.add_transaction's uuid4():
\* the category check, the Transaction object and its identifier
BeginAdd(th, amount, category) ==
    /\ running
    /\ pc[th] = "idle"
    /\ IF ~CategoryKnown(store, category)
       THEN /\ local' = [local EXCEPT ![th] =
                            [NoLocal EXCEPT !.returned = "rejected"]]
            /\ UNCHANGED <<pc, next_id>>
       ELSE /\ next_id <= MaxTx
            /\ local' = [local EXCEPT ![th] =
                            [NoLocal EXCEPT !.transaction =
                                NewTransaction(next_id, amount, category,
                                               "absent", now)]]
            /\ pc' = [pc EXCEPT ![th] = "load_log"]
            /\ next_id' = next_id + 1
    /\ UNCHANGED <<store, same_dir, api_key, now, running, last>>

\* transactions = self._load_json(self.transactions_file); transactions.append
LoadLog(th) ==
    /\ pc[th] = "load_log"
    /\ local' = [local EXCEPT ![th].transactions =
                    AppendTransaction(LoadTransactions(store.transactions_file),
                                      local[th].transaction)]
    /\ pc' = [pc EXCEPT ![th] = "open_log"]
    /\ UNCHANGED <<store, same_dir, api_key, now, next_id, running, last>>

\* _save_json: open(self.transactions_file, 'w') empties the file
OpenLog(th) ==
    /\ pc[th] = "open_log"
    /\ store' = [store EXCEPT !.transactions_file = TruncatedTxDoc]
    /\ pc' = [pc EXCEPT ![th] = "write_log"]
    /\ UNCHANGED <<same_dir, api_key, now, next_id, running, last, local>>

\* _save_json: json.dump(transactions, f) and close
WriteLog(th) ==
    /\ pc[th] = "write_log"
    /\ store' = [store EXCEPT !.transactions_file =
                    SaveTxDoc(local[th].transactions)]
    /\ pc' = [pc EXCEPT ![th] = "load_account"]
    /\ UNCHANGED <<same_dir, api_key, now, next_id, running, last, local>>

\* account_data = self._load_json(self.account_file, ...); += amount
LoadAccountStep(th) ==
    /\ pc[th] = "load_account"
    /\ local' = [local EXCEPT ![th].total_balance =
                    UpdateBalance(LoadAccount(store.account_file),
                                  local[th].transaction.amount)]
    /\ pc' = [pc EXCEPT ![th] = "open_account"]
    /\ UNCHANGED <<store, same_dir, api_key, now, next_id, running, last>>

\* _save_json: open(self.account_file, 'w') empties the file
OpenAccount(th) ==
    /\ pc[th] = "open_account"
    /\ store' = [store EXCEPT !.account_file = TruncatedAccountDoc]
    /\ pc' = [pc EXCEPT ![th] = "write_account"]
    /\ UNCHANGED <<same_dir, api_key, now, next_id, running, last, local>>

\* _save_json: json.dump(account_data, f) and close
WriteAccount(th) ==
    /\ pc[th] = "write_account"
    /\ store' = [store EXCEPT !.account_file = AccountDoc(local[th].total_balance)]
    /\ pc' = [pc EXCEPT ![th] = "read_balance"]
    /\ UNCHANGED <<same_dir, api_key, now, next_id, running, last, local>>

\* back in AccountingTools.add_transaction: current_balance = get_balance(),
\* and the success result is returned
ReturnAdd(th) ==
    /\ pc[th] = "read_balance"
    /\ local' = [local EXCEPT ![th] =
                    [NoLocal EXCEPT !.transaction = local[th].transaction,
                                    !.returned = "success",
                                    !.current_balance = GetBalance(store)]]
    /\ pc' = [pc EXCEPT ![th] = "idle"]
    /\ UNCHANGED <<store, same_dir, api_key, now, next_id, running, last>>

ConcCategories == {"food", "nonexistent"}

NextConc ==
    \/ \E th \in Threads, amount \in Amounts, category \in ConcCategories :
          BeginAdd(th, amount, category)
    \/ \E th \in Threads : LoadLog(th)
    \/ \E th \in Threads : OpenLog(th)
    \/ \E th \in Threads : WriteLog(th)
    \/ \E th \in Threads : LoadAccountStep(th)
    \/ \E th \in Threads : OpenAccount(th)
    \/ \E th \in Threads : WriteAccount(th)
    \/ \E th \in Threads : ReturnAdd(th)

\* the stdio loop and the HTTP thread interleave on the store
SpecConc == Init /\ [][NextConc]_vars

(***************************************************************************)
(* Properties.                                                             *)
(***************************************************************************)
Log == LoadTransactions(store.transactions_file)
Balance == GetBalance(store)

\* the sum of the amounts of a sequence of transactions
RECURSIVE SumAmounts(_)
SumAmounts(txs) ==
    IF txs = << >> THEN 0
    ELSE Head(txs).amount + SumAmounts(Tail(txs))

\* the names in the category document, read off the document itself
CategoryNameSet(st) ==
    {st.categories_file[i].name : i \in 1 .. Len(st.categories_file)}

\* the exchange x handed one request to handle_request
SingleDispatched(x) ==
    /\ x.transport # "none"
    /\ x.input.kind = "single"
    /\ x.form # "unauthorized"

\* ... and wrote back the envelope handle_request returned
SingleAnswered(x) ==
    /\ SingleDispatched(x)
    /\ x.form = "single"
    /\ x.status \in {0, 200}

\* an add_transaction call that binds and names a category that does not exist
UnknownCategoryAdd(r, st) ==
    /\ r.type = "object"
    /\ r.jsonrpc = "2.0"
    /\ r.method = "add_transaction"
    /\ r.params.shape = "object"
    /\ r.params.akind # "absent"
    /\ r.params.category # "absent"
    /\ r.params.category \notin CategoryNameSet(st)

\* the sum of a sequence of amounts
RECURSIVE SumSeq(_)
SumSeq(amounts) ==
    IF amounts = << >> THEN 0
    ELSE Head(amounts) + SumSeq(Tail(amounts))

\* C1: with requests handled one at a time, the balance starts at 0 and
\* every exchange moves get_balance by exactly the sum of the amounts of the
\* store's add_transaction calls made in it (in the order made); nothing
\* else moves it.  So get_balance is the sum of the amounts of all the calls.
C1_BalanceIsSumOfAdds ==
    [][/\ last' # NoExchange
          => Balance' = Balance + SumSeq(last'.created)
       /\ last' = NoExchange => Balance' = Balance]_vars

\* the scenario of the spec: -50 then 5000 leave 4950
C1_Witness ==
    /\ Len(Log) = 2
    /\ Log[1].amount = -50
    /\ Log[2].amount = 5000
    /\ Balance = 4950

\* C2: whenever no add_transaction is in progress, the persisted balance is
\* the sum of the persisted log, also when the two threads interleave.
C2_IdleBalanceIsSum ==
    (\A th \in Threads : pc[th] = "idle") => Balance = SumAmounts(Log)

\* C3: add_transaction with a category that does not exist leaves the log
\* and the balance unchanged and returns success = false without raising.
C3_UnknownCategoryRejected ==
    [][(SingleDispatched(last') /\ UnknownCategoryAdd(last'.input.reqs[1], store))
        => /\ store' = store
           /\ next_id' = next_id
           /\ SingleAnswered(last')
           /\ "result" \in last'.envs[1].members
           /\ last'.envs[1].result.kind = "add_transaction"
           /\ last'.envs[1].result.success = FALSE]_vars

C3_Witness ==
    /\ SingleAnswered(last)
    /\ last.transport = "stdio"
    /\ UnknownCategoryAdd(last.input.reqs[1], store)
    /\ last.input.reqs[1].params.akind = "num"
    /\ Balance = 5000
    /\ Len(Log) = 1

\* C4 as claimed: a dispatched add_transaction whose category is unknown is
\* answered with an error envelope, code -32602, and no result member.
C4_UnknownCategoryErrorEnvelope ==
    (SingleDispatched(last) /\ UnknownCategoryAdd(last.input.reqs[1], store))
        => /\ SingleAnswered(last)
           /\ "error" \in last.envs[1].members
           /\ "result" \notin last.envs[1].members
           /\ last.envs[1].error.code = -32602

\* C4 amended: a dispatched add_transaction whose category is unknown is
\* answered with a success envelope (a result member, no error member) whose
\* result carries success = false, an error naming the category and the list
\* of the available categories.
C4_UnknownCategoryResultEnvelope ==
    (SingleDispatched(last) /\ UnknownCategoryAdd(last.input.reqs[1], store))
        => /\ SingleAnswered(last)
           /\ last.envs[1].members = {"jsonrpc", "result", "id"}
           /\ last.envs[1].id = RequestId(last.input.reqs[1])
           /\ last.envs[1].result.success = FALSE
           /\ last.envs[1].result.error.name = last.input.reqs[1].params.category
           /\ SeqRange(last.envs[1].result.available_categories)
                  = CategoryNameSet(store)

C4_Witness ==
    /\ SingleAnswered(last)
    /\ last.transport = "http"
    /\ UnknownCategoryAdd(last.input.reqs[1], store)
    /\ last.envs[1].result.success = FALSE
    /\ last.envs[1].id = "7"

\* the exchange x handed a batch to the batch loop, which ran to its end
BatchAnswered(x) ==
    /\ x.transport # "none"
    /\ x.input.kind = "batch"
    /\ x.form \in {"array", "none"}
    /\ x.status \in {0, 200}
    /\ running

\* the ids of the envelopes of a batch that carry an id member, in order
RECURSIVE CarriedIds(_)
CarriedIds(reqs) ==
    IF reqs = << >> THEN << >>
    ELSE (IF Head(reqs).id # "absent" THEN << Head(reqs).id >> ELSE << >>)
         \o CarriedIds(Tail(reqs))

EnvelopeIds(envs) == [i \in 1 .. Len(envs) |-> envs[i].id]

\* C5: the response array of a batch has one entry per envelope that carried
\* an id, in the order of those envelopes; notifications contribute none.
C5_BatchAnswersCarriedIds ==
    BatchAnswered(last) => EnvelopeIds(last.envs) = CarriedIds(last.input.reqs)

\* C6: a batch that yields no response entry produces no output at all, on
\* stdio and over HTTP.
C6_EmptyBatchIsSilent ==
    (BatchAnswered(last) /\ last.envs = << >>) => last.form = "none"

\* C7: no line ends the stdio loop; it ends only when the input is closed.
C7_OnlyEofEndsLoop ==
    ~running => (last.transport = "stdio" /\ last.input.kind = "eof")

\* an envelope object whose protocol tag is absent or not "2.0"
BadTag(r) == r.type = "object" /\ r.jsonrpc # "2.0"

\* C8: an envelope object without the tag "2.0" is answered with -32600 and
\* the envelope's id (null when it has none), whatever it names; no handler
\* runs and the store is unchanged.
C8_BadTagInvalidRequest ==
    [][(SingleDispatched(last') /\ BadTag(last'.input.reqs[1]))
        => /\ store' = store
           /\ next_id' = next_id
           /\ SingleAnswered(last')
           /\ last'.envs[1].members = {"jsonrpc", "error", "id"}
           /\ last'.envs[1].error.code = -32600
           /\ last'.envs[1].id = (IF last'.input.reqs[1].id = "absent" THEN "null"
                                  ELSE last'.input.reqs[1].id)]_vars

C8_Witness ==
    /\ SingleAnswered(last)
    /\ last.input.reqs[1].jsonrpc = "1.0"
    /\ last.input.reqs[1].method = "add_transaction"
    /\ last.input.reqs[1].id = "7"
    /\ last.envs[1].error.code = -32600
    /\ last.envs[1].id = "7"
    /\ Len(Log) = 1

\* a method call naming no method of the table, or a resource fetch (an
\* envelope without a method member) naming no resource of the table
UnknownMethod(r) ==
    /\ r.type = "object" /\ r.jsonrpc = "2.0"
    /\ r.method \notin ({"absent", "unhashable"} \cup Tools)
UnknownResource(r) ==
    /\ r.type = "object" /\ r.jsonrpc = "2.0"
    /\ r.method = "absent"
    /\ r.resource \notin ({"absent", "unhashable"} \cup Resources)

\* C9: a well-tagged method call naming an unknown method, or resource fetch
\* naming an unknown resource, is answered with -32601 and a message holding
\* the offending name; no handler runs and the store is unchanged.
C9_UnknownNameNotFound ==
    [][(SingleDispatched(last')
        /\ (UnknownMethod(last'.input.reqs[1])
            \/ UnknownResource(last'.input.reqs[1])))
        => /\ store' = store
           /\ next_id' = next_id
           /\ SingleAnswered(last')
           /\ last'.envs[1].members = {"jsonrpc", "error", "id"}
           /\ last'.envs[1].error.code = -32601
           /\ last'.envs[1].error.message.name =
                (IF UnknownMethod(last'.input.reqs[1])
                 THEN last'.input.reqs[1].method
                 ELSE last'.input.reqs[1].resource)]_vars

C9_Witness ==
    /\ SingleAnswered(last)
    /\ UnknownMethod(last.input.reqs[1])
    /\ last.input.reqs[1].params.akind = "num"
    /\ last.envs[1].error.code = -32601
    /\ last.envs[1].error.message.name = "unknown_method"
    /\ Len(Log) = 1

\* an add_transaction call that leaves out amount, category or both
MissingRequired(r) ==
    /\ r.type = "object" /\ r.jsonrpc = "2.0"
    /\ r.method = "add_transaction"
    /\ r.params.shape # "other"
    /\ Keys(r.params) \subseteq {"amount", "category"}
    /\ (r.params.akind = "absent" \/ r.params.category = "absent")

\* C10: add_transaction without amount or without category is answered with
\* -32602, the failure message and a data member; the store is unchanged.
C10_MissingParameterInvalidParams ==
    [][(SingleDispatched(last') /\ MissingRequired(last'.input.reqs[1]))
        => /\ store' = store
           /\ next_id' = next_id
           /\ SingleAnswered(last')
           /\ last'.envs[1].members = {"jsonrpc", "error", "id"}
           /\ last'.envs[1].error.code = -32602
           /\ last'.envs[1].error.message.tmpl = "method execution error"
           /\ last'.envs[1].error.message.exc.kind
                  = "TypeError: missing required argument"
           /\ last'.envs[1].error.message.exc.arg =
                (IF last'.input.reqs[1].params.akind # "absent" THEN "category"
                 ELSE IF last'.input.reqs[1].params.category # "absent"
                 THEN "amount"
                 ELSE "amount and category")
           /\ last'.envs[1].error.data = TRUE]_vars

C10_Witness ==
    /\ SingleAnswered(last)
    /\ MissingRequired(last.input.reqs[1])
    /\ last.input.reqs[1].params.category = "food"
    /\ last.envs[1].error.code = -32602
    /\ last.envs[1].error.data
    /\ Len(Log) = 1

\* the envelope e answers the request object r as the protocol demands
WellFormedReply(r, e) ==
    /\ {"jsonrpc", "id"} \subseteq e.members
    /\ e.jsonrpc = "2.0"
    /\ e.id = (IF r.id = "absent" THEN "null" ELSE r.id)
    /\ ("result" \in e.members) # ("error" \in e.members)
    /\ e.members \subseteq {"jsonrpc", "id", "result", "error"}
    /\ "error" \in e.members => e.error.code \in {-32600, -32601, -32602, -32603}

\* handle_request handed back a for the request r
WellFormedAnswer(r, a) == ~a.escaped /\ WellFormedReply(r, a.response)

\* C11: in every store state, the envelope handle_request returns for a
\* request object (alone or as an element of a batch) carries the tag "2.0",
\* the request's id (null when it has none) and exactly one of result and
\* error, an error having a code among -32600, -32601, -32602 and -32603.
C11_EnvelopeWellFormed ==
    (running /\ last = NoExchange)
        => \A r \in {q \in Requests \cup BatchElements : q.type = "object"} :
              WellFormedAnswer(r, HandleRequest(r, store, same_dir, now, next_id))

\* a method given as a JSON array is answered with -32603 and the request's id
C11_Witness ==
    /\ SingleAnswered(last)
    /\ last.input.reqs[1].method = "unhashable"
    /\ last.envs[1].error.code = -32603
    /\ last.envs[1].id = "7"

\* the exchange x read text that is not valid JSON
NotJson(x) ==
    /\ x.transport # "none"
    /\ x.input.kind \in {"invalid", "overdeep"}
    /\ x.form # "unauthorized"

\* C12: text that is not valid JSON is answered with exactly one envelope,
\* an error with code -32700 and a null id, on both transports, and the
\* process goes on.
C12_NotJsonIsParseError ==
    NotJson(last)
        => /\ running
           /\ last.form = "single"
           /\ Len(last.envs) = 1
           /\ last.envs[1].members = {"jsonrpc", "error", "id"}
           /\ last.envs[1].error.code = -32700
           /\ last.envs[1].id = "null"

\* the HTTP handler's outcome h and the stdio loop's outcome s write the same
\* JSON-RPC output and leave the same store
SameResponse(h, s) ==
    /\ h.form = s.form
    /\ h.envs = s.envs
    /\ h.store = s.store

\* C13: in every store state and for every request body, an authorised POST
\* of the body and a stdin line holding the body produce the same output
\* (the same envelopes, or none in both cases) and the same store.
C13_TransportsAgree ==
    (running /\ last = NoExchange)
        => \A body \in Bodies :
              SameResponse(PostOutcome("Bearer secret", body, api_key, store,
                                       same_dir, now, next_id),
                           RunOutcome(body, store, same_dir, now, next_id))

\* C14: every transaction add_transaction has stored is among those the
\* resource transactions://all returns, and the balance of the resource
\* summary://current is the balance the method get_balance returns.
C14_OneLedgerStore ==
    /\ SeqRange(Log)
         \subseteq SeqRange(FetchResource("transactions://all", store, same_dir,
                                          now).result.transactions)
    /\ FetchResource("summary://current", store, same_dir, now).result.balance
         = ToolsGetBalance(store).result.balance

\* a is an initial segment of b
IsPrefix(a, b) == Len(a) <= Len(b) /\ SubSeq(b, 1, Len(a)) = a

\* C15: with requests handled one at a time, every exchange leaves the
\* transactions already logged in place and unchanged, and lengthens the log
\* by one entry for each add_transaction the store carried out in it.
C15_LogAppendOnly ==
    [][/\ IsPrefix(Log, Log')
       /\ last' # NoExchange => Len(Log') = Len(Log) + Len(last'.created)]_vars

\* the persisted log holds the transaction a thread's last call created
Logged(t) == \E i \in 1..Len(Log) : Log[i].id = t.id

\* C16: when the stdio loop and the HTTP thread have each returned success
\* from an add_transaction, both transactions are in the persisted log.
C16_BothAddsLogged ==
    (\A th \in Threads : pc[th] = "idle" /\ local[th].returned = "success")
        => \A th \in Threads : Logged(local[th].transaction)

\* C17: every transaction in the persisted log carries a category that is
\* the name of a category in the category list.
C17_LoggedCategoriesExist ==
    \A i \in 1 .. Len(Log) : Log[i].category \in CategoryNameSet(store)

\* two adds of different categories have been stored, the second just now
C17_Witness ==
    /\ SingleAnswered(last)
    /\ last.input.reqs[1].method = "add_transaction"
    /\ Len(last.created) = 1
    /\ Len(Log) = 2
    /\ Log[1].category # Log[2].category

(***************************************************************************)
(* A store that already holds transactions.  StorageManager.__init__ keeps *)
(* the documents it finds in the data directory, so a server starts on the *)
(* log earlier runs wrote.  The timestamps are datetime.now() read as      *)
(* naive local time, which a clock adjustment can set back: the log's      *)
(* order need not be the order of its timestamps.  The instants taken are  *)
(* the start of the first month, the last whole second of that month, the  *)
(* half second after it, and the start of the second month.                *)
(***************************************************************************)
PriorTimes ==
    {MonthStart(1, 1),
     MonthStart(1, 2) - TicksPerSecond,
     MonthStart(1, 2) - 1,
     MonthStart(1, 2)}

\* what earlier add_transaction calls stored: an expense or an income
PriorEntries ==
    {<<a[1], a[2], t>> : a \in {<<-50, "food">>, <<5000, "salary">>},
                         t \in PriorTimes}

\* the logs of exactly n transactions, identifiers in the order of storing
RECURSIVE PriorLogsOfLen(_)
PriorLogsOfLen(n) ==
    IF n = 0 THEN {<< >>}
    ELSE {Append(txs, NewTransaction(n, e[1], e[2], "absent", e[3])) :
            txs \in PriorLogsOfLen(n - 1), e \in PriorEntries}

PriorLogs == UNION {PriorLogsOfLen(n) : n \in 0 .. MaxTx}

\* the documents add_transaction left after storing txs
StoredStore(txs) ==
    [transactions_file |-> TxDoc(txs),
     account_file |-> AccountDoc(SumAmounts(txs)),
     categories_file |-> DefaultCategories]

\* the server starts at the beginning of the second month on such a store
InitStored ==
    /\ \E txs \in PriorLogs :
          /\ store = StoredStore(txs)
          /\ next_id = Len(txs) + 1
    /\ same_dir = TRUE
    /\ api_key = ""
    /\ now = MonthStart(1, 2)
    /\ running = TRUE
    /\ last = NoExchange
    /\ pc = [th \in Threads |-> "idle"]
    /\ local = [th \in Threads |-> NoLocal]

\* the lines that carry one query of the log
QueryLines ==
    {Line("single", << r >>) :
        r \in {q \in Requests :
                 /\ q.jsonrpc = "2.0"
                 /\ \/ q.method \in {"list_transactions", "get_monthly_summary"}
                    \/ q.method = "absent" /\ q.resource \in Resources}}

\* the stdio loop reads a query and handles it to completion
QueryStep ==
    /\ running
    /\ last = NoExchange
    /\ \E line \in QueryLines : RunLoop(line)

NextStored ==
    \/ QueryStep
    \/ NextExchange

\* queries, one at a time, of a store that holds earlier transactions
SpecStored == InitStored /\ [][NextStored]_vars

\* each entry's timestamp is at least that of the entry after it
Descending(txs) ==
    \A i \in 1 .. Len(txs) - 1 : txs[i].timestamp >= txs[i + 1].timestamp

\* the exchange x answered one request with a result of the given kinds
AnsweredWith(x, kinds) ==
    /\ SingleAnswered(x)
    /\ "result" \in x.envs[1].members
    /\ x.envs[1].result.kind \in kinds

\* C18: what get_transactions returns, and with it the result of
\* list_transactions and of the resource transactions://all, is ordered by
\* timestamp, newest first.
C18_NewestFirst ==
    /\ \A c \in {"absent", "", "food", "salary"},
          s \in {NoDate} \cup {Date(t) : t \in PriorTimes},
          e \in {NoDate} \cup {Date(t) : t \in PriorTimes} :
            Descending(GetTransactions(store, c, s, e))
    /\ AnsweredWith(last, {"list_transactions", "transactions"})
          => Descending(last.envs[1].result.transactions)

\* a list_transactions call returned two transactions the log holds in the
\* other order, the older one first
C18_Witness ==
    /\ AnsweredWith(last, {"list_transactions"})
    /\ Len(Log) = 2
    /\ Log[1].timestamp < Log[2].timestamp
    /\ last.envs[1].result.transactions = << Log[2], Log[1] >>

\* the logged transactions whose category is c
LoggedIn(c) == {Log[i] : i \in {j \in 1 .. Len(Log) : Log[j].category = c}}

\* C19: list_transactions with a category filter c, the empty string
\* included, returns exactly the logged transactions whose category is c.
C19_CategoryFilterExact ==
    (/\ AnsweredWith(last, {"list_transactions"})
     /\ last.input.reqs[1].params.category # "absent"
     /\ ~last.input.reqs[1].params.days.some)
        => SeqRange(last.envs[1].result.transactions)
              = LoggedIn(last.input.reqs[1].params.category)

\* the first instant of the month after (year, month)
NextMonthStart(year, month) ==
    IF month = MonthsPerYear
    THEN MonthStart(year + 1, 1)
    ELSE MonthStart(year, month + 1)

\* the transactions of txs stamped in [start of the month, start of the next)
InMonth(txs, year, month) ==
    LET Within(t) == /\ MonthStart(year, month) <= t.timestamp
                     /\ t.timestamp < NextMonthStart(year, month)
    IN  SelectSeq(txs, Within)

\* the months of the first year in which get_monthly_summary counts t
CountedIn(t) ==
    {m \in 1 .. MonthsPerYear :
        \E i \in 1 .. Len(Log) :
            /\ Log[i] = t
            /\ Selected(t, "absent", Date(MonthStart(1, m)),
                        Date(MonthEnd(1, m)))}

\* C20: get_monthly_summary(year, month) sums exactly the transactions
\* stamped from the first instant of the month up to, not including, the
\* first instant of the next month; every logged transaction is counted in
\* exactly one month.
C20_MonthIsHalfOpen ==
    /\ AnsweredWith(last, {"get_monthly_summary"})
          => /\ last.envs[1].result.summary.total_income
                   = SumIncome(InMonth(Log, last.envs[1].result.summary.year,
                                       last.envs[1].result.summary.month))
             /\ last.envs[1].result.summary.total_expense
                   = SumExpense(InMonth(Log, last.envs[1].result.summary.year,
                                        last.envs[1].result.summary.month))
    /\ \A i \in 1 .. Len(Log) :
          YearOf(Log[i].timestamp) = 1 => Cardinality(CountedIn(Log[i])) = 1

\* the amounts of txs that satisfy Keep, in the order of txs
AmountsWhere(txs, Keep(_)) ==
    [i \in 1 .. Len(SelectSeq(txs, Keep)) |-> SelectSeq(txs, Keep)[i].amount]

\* the sum of the positive amounts of txs
PositiveSum(txs) ==
    LET IsIncome(t) == t.amount > 0
    IN  SumSeq(AmountsWhere(txs, IsIncome))

\* the sum of the absolute values of the negative amounts of txs in category c
NegativeSumIn(txs, c) ==
    LET IsExpenseIn(t) == t.amount < 0 /\ t.category = c
    IN  0 - SumSeq(AmountsWhere(txs, IsExpenseIn))

\* the sum of the absolute values of all negative amounts of txs
NegativeSum(txs) ==
    LET IsExpense(t) == t.amount < 0
    IN  0 - SumSeq(AmountsWhere(txs, IsExpense))

\* the sum of the values of a function with a finite domain
RECURSIVE SumValues(_)
SumValues(f) ==
    IF DOMAIN f = {} THEN 0
    ELSE LET c == CHOOSE x \in DOMAIN f : TRUE
         IN  f[c] + SumValues([x \in DOMAIN f \ {c} |-> f[x]])

\* the summary s is the one the claim describes for the transactions txs
SummaryOf(s, txs) ==
    /\ s.total_income = PositiveSum(txs)
    /\ s.total_expense = NegativeSum(txs)
    /\ s.balance_change = s.total_income - s.total_expense
    /\ DOMAIN s.category_expenses
          = {txs[i].category : i \in {j \in 1 .. Len(txs) : txs[j].amount < 0}}
    /\ \A c \in DOMAIN s.category_expenses :
          s.category_expenses[c] = NegativeSumIn(txs, c)
    /\ SumValues(s.category_expenses) = s.total_expense

\* the transactions get_monthly_summary selects for the month of summary s
SelectedFor(s) ==
    GetTransactions(store, "absent", Date(MonthStart(s.year, s.month)),
                    Date(MonthEnd(s.year, s.month)))

\* C21: over the transactions selected for the month, the summary's
\* total_income is the sum of the positive amounts, total_expense the sum of
\* the absolute values of the negative ones, balance_change their
\* difference, and category_expenses maps exactly the categories with an
\* expense to the sum of the absolute values of their expenses.
C21_SummaryArithmetic ==
    AnsweredWith(last, {"get_monthly_summary"})
        => SummaryOf(last.envs[1].result.summary,
                     SelectedFor(last.envs[1].result.summary))

\* a summary of a month holding one expense and one income
C21_Witness ==
    /\ AnsweredWith(last, {"get_monthly_summary"})
    /\ Len(SelectedFor(last.envs[1].result.summary)) = 2
    /\ last.envs[1].result.summary.total_income = 5000
    /\ last.envs[1].result.summary.total_expense = 50
    /\ last.envs[1].result.summary.balance_change = 4950
    /\ DOMAIN last.envs[1].result.summary.category_expenses = {"food"}
    /\ last.envs[1].result.summary.category_expenses["food"] = 50

\* the request r is a get_balance, list_transactions or get_monthly_summary
\* call, or fetches one of the three resources
ReadOnlyRequest(r) ==
    /\ r.type = "object"
    /\ r.jsonrpc = "2.0"
    /\ \/ r.method \in {"get_balance", "list_transactions", "get_monthly_summary"}
       \/ r.method = "absent" /\ r.resource \in Resources

\* C22: the persisted documents change only in an exchange in which the
\* store's add_transaction stored a transaction; the read operations and the
\* three resources leave the log, the balance and the categories as they
\* were, and no operation changes the category list.
C22_ReadsLeaveStore ==
    [][/\ store'.categories_file = store.categories_file
       /\ (last' # NoExchange /\ last'.created = << >>) => store' = store
       /\ (/\ SingleDispatched(last')
           /\ ReadOnlyRequest(last'.input.reqs[1])) => store' = store
       /\ last' = NoExchange => store' = store]_vars

\* a list_transactions call has been answered on a store holding a transaction
C22_Witness ==
    /\ AnsweredWith(last, {"list_transactions"})
    /\ Len(Log) = 1
    /\ Balance = -50
    /\ last.created = << >>

(***************************************************************************)
(* Starting on a data directory.  StorageManager.__init__ seeds a default  *)
(* for each of the three documents that does not exist and leaves every    *)
(* document that exists as it is, readable or not.  Before the server is   *)
(* constructed `store` is the directory as earlier runs left it, in which  *)
(* any of the three documents may be missing.                              *)
(***************************************************************************)
NoFile == [valid |-> FALSE, exists |-> FALSE]
\* the category document, a list when it exists, does not exist
NoCategoriesFile == << [name |-> "no file", type |-> "no file"] >>

\* a slip: the defaults are written whether or not the documents exist
InitDefaultData_Always(dir) == FreshStore

\* StorageManager._init_default_data: `if not os.path.exists(...)`, thrice
InitDefaultData(dir) ==
    [categories_file |->
        IF dir.categories_file = NoCategoriesFile
        THEN DefaultCategories ELSE dir.categories_file,
     account_file |->
        IF dir.account_file = NoFile
        THEN AccountDoc(0) ELSE dir.account_file,
     transactions_file |->
        IF dir.transactions_file = NoFile
        THEN TxDoc(<< >>) ELSE dir.transactions_file]

\* the directory dir without the documents named in gone
Without(dir, gone) ==
    [f \in {"transactions_file", "account_file", "categories_file"} |->
        IF f \notin gone THEN dir[f]
        ELSE IF f = "categories_file" THEN NoCategoriesFile ELSE NoFile]

\* the documents of a stored log, the log or the account document possibly
\* cut short by a write that failed or was stopped
LeftBehind(txs) ==
    {[StoredStore(txs) EXCEPT !.transactions_file = t, !.account_file = a] :
        t \in {StoredStore(txs).transactions_file, PartialTxDoc},
        a \in {StoredStore(txs).account_file, TruncatedAccountDoc}}

\* the directories earlier runs can have left, any of the documents missing
Directories ==
    {Without(d, gone) :
        d \in UNION {LeftBehind(txs) : txs \in PriorLogs},
        gone \in SUBSET {"transactions_file", "account_file", "categories_file"}}

\* no server is running yet on the directory
InitRestart ==
    /\ store \in Directories
    /\ same_dir = TRUE
    /\ api_key = ""
    /\ now = MonthStart(1, 2)
    /\ next_id = MaxTx + 1
    /\ running = FALSE
    /\ last = NoExchange
    /\ pc = [th \in Threads |-> "idle"]
    /\ local = [th \in Threads |-> NoLocal]

\* MCPServer() is constructed, and with it StorageManager(data_dir)
Construct ==
    /\ ~running
    /\ store' = InitDefaultData(store)
    /\ running' = TRUE
    /\ last' = NoExchange
    /\ UNCHANGED <<same_dir, api_key, now, next_id, pc, local>>

\* the lines served: the queries, get_balance and the end of the input
ServeLines ==
    QueryLines
    \cup {Line("single", << Env("2.0", "7", "get_balance", "absent", NoParams) >>),
          Line("eof", << >>)}

\* the stdio loop reads a query, or the end of its input, and handles it
ServeStep ==
    /\ running
    /\ last = NoExchange
    /\ \E line \in ServeLines : RunLoop(line)

NextRestart ==
    \/ Construct
    \/ ServeStep
    \/ NextExchange

\* servers started, queried and ended, one after another, on one directory
SpecRestart == InitRestart /\ [][NextRestart]_vars

\* the directory holds all three documents
AllDocumentsExist(dir) ==
    /\ dir.transactions_file # NoFile
    /\ dir.account_file # NoFile
    /\ dir.categories_file # NoCategoriesFile

\* C23: constructing a StorageManager on a directory that holds the three
\* documents overwrites none of them: the balance, the transactions and the
\* categories read afterwards are those read before.
C23_RestartKeepsDocuments ==
    [][(~running /\ running' /\ AllDocumentsExist(store))
          => /\ store' = store
             /\ GetBalance(store') = GetBalance(store)
             /\ LoadTransactions(store'.transactions_file)
                   = LoadTransactions(store.transactions_file)
             /\ GetCategories(store') = GetCategories(store)]_vars

\* a server started on a directory holding two transactions has served the
\* resource transactions://all with both of them
C23_Witness ==
    /\ running
    /\ AnsweredWith(last, {"transactions"})
    /\ Len(last.envs[1].result.transactions) = 2
    /\ Balance = 4950
    /\ GetCategories(store) = DefaultCategories

\* a bearer secret is configured and the header is not "Bearer <secret>"
WrongBearer(key, auth) == key # "" /\ auth # "Bearer " \o key

\* C24: with a bearer secret configured, a POST whose Authorization header
\* is not exactly "Bearer <secret>" is answered 401, nothing is dispatched
\* and the store is unchanged; every other POST is never answered 401 and
\* its request goes to handle_request.
C24_BearerGate ==
    [][last'.transport = "http"
          => /\ WrongBearer(api_key, last'.auth)
                   => /\ last'.status = 401
                      /\ last'.form = "unauthorized"
                      /\ last'.envs = << >>
                      /\ last'.created = << >>
                      /\ store' = store
                      /\ next_id' = next_id
             /\ ~WrongBearer(api_key, last'.auth)
                   => /\ last'.status # 401
                      /\ last'.form # "unauthorized"
                      /\ last'.input.kind = "single"
                            => last' = Exchange("http", last'.auth, last'.input,
                                   PostSingle(HandleRequest(last'.input.reqs[1],
                                       store, same_dir, now, next_id)))]_vars

\* an add_transaction POSTed with a wrong bearer token was refused on a
\* store that holds a transaction
C24_Witness ==
    /\ api_key = "secret"
    /\ last.transport = "http"
    /\ last.auth = "Bearer wrong"
    /\ last.status = 401
    /\ last.input.kind = "single"
    /\ last.input.reqs[1].method = "add_transaction"
    /\ Len(Log) = 1

\* the exchange x dispatched one well-tagged call of a method named by a string
NamedCall(x) ==
    /\ SingleDispatched(x)
    /\ x.input.reqs[1].type = "object"
    /\ x.input.reqs[1].jsonrpc = "2.0"
    /\ x.input.reqs[1].method \notin {"absent", "unhashable"}

\* the exchange x was answered with the error code -32601
NotFoundReply(x) ==
    /\ SingleAnswered(x)
    /\ x.envs[1].members = {"jsonrpc", "error", "id"}
    /\ x.envs[1].error.code = -32601

\* the exchange x is as a table routing exactly the names in routed makes it:
\* a call of any other name is answered with -32601, a call of one of them
\* never is
RoutesExactly(x, routed) ==
    NamedCall(x) => (NotFoundReply(x) <=> x.input.reqs[1].method \notin routed)

\* C25 as claimed: the method table routes exactly add_transaction,
\* get_balance, list_transactions and get_monthly_summary; a well-tagged
\* call of any other method name is answered with -32601.
C25_FourMethodsRouted ==
    [][RoutesExactly(last', {"add_transaction", "get_balance",
                             "list_transactions",
                             "get_monthly_summary"})]_vars

\* C25 corrected: the method table routes exactly five names, the four of
\* the claim and process_voice_command; a well-tagged call of any other
\* method name is answered with -32601.
C25_FiveMethodsRouted ==
    [][RoutesExactly(last', {"add_transaction", "get_balance",
                             "list_transactions", "get_monthly_summary",
                             "process_voice_command"})]_vars

\* a process_voice_command call was routed to its handler and answered with
\* a result
C25_Witness ==
    /\ SingleAnswered(last)
    /\ NamedCall(last)
    /\ last.input.reqs[1].method = "process_voice_command"
    /\ last.input.reqs[1].params.command = "balance"
    /\ "result" \in last.envs[1].members
    /\ Len(Log) = 1

(***************************************************************************)
(* One caller, one file operation at a time.  The stdio loop alone calls   *)
(* add_transaction; every state is a point at which the process can stop,  *)
(* and `store` is what it leaves on disk there.                            *)
(***************************************************************************)
NextCrash ==
    \/ \E amount \in Amounts, category \in ConcCategories :
          BeginAdd("stdio", amount, category)
    \/ LoadLog("stdio")
    \/ OpenLog("stdio")
    \/ WriteLog("stdio")
    \/ LoadAccountStep("stdio")
    \/ OpenAccount("stdio")
    \/ WriteAccount("stdio")
    \/ ReturnAdd("stdio")

SpecCrash == Init /\ [][NextCrash]_vars

\* C26: wherever an add_transaction call stops, the persisted balance is the
\* sum of the logged amounts, or that sum less the amount of the last logged
\* transaction; it never holds the amount of a transaction the log lacks.
C26_LogLeadsBalance ==
    \/ Balance = SumAmounts(Log)
    \/ /\ Len(Log) > 0
       /\ Balance = SumAmounts(Log) - Log[Len(Log)].amount

\* the logged transactions stamped at or after `since` that match the
\* category filter c, when one is given
LoggedSince(since, c) ==
    {Log[i] : i \in {j \in 1 .. Len(Log) :
                       /\ Log[j].timestamp >= since
                       /\ c # "absent" => Log[j].category = c}}

\* C27: list_transactions(days = d), for every d >= 0 and also for d = 0,
\* returns exactly the logged transactions stamped not earlier than d days
\* before the call.
C27_LookbackWindow ==
    (/\ AnsweredWith(last, {"list_transactions"})
     /\ last.input.reqs[1].params.days.some
     /\ last.input.reqs[1].params.days.v >= 0)
        => SeqRange(last.envs[1].result.transactions)
              = LoggedSince(now - (last.input.reqs[1].params.days.v * TicksPerDay),
                            last.input.reqs[1].params.category)

\* the exchange x dispatched one well-tagged call of the method m
Called(x, m) ==
    /\ NamedCall(x)
    /\ x.input.reqs[1].method = m

\* an add_transaction whose log cannot be written: the description cannot
\* be encoded
UnwritableAdd ==
    Env("2.0", "7", "add_transaction", "absent",
        [AddParams("num", 5000, "food") EXCEPT !.description = "unencodable"])

\* handle_request answered a with a successful add_transaction result while
\* the write of the log failed
WriteFailureSwallowed(a) ==
    /\ ~a.escaped
    /\ a.response.members = {"jsonrpc", "result", "id"}
    /\ a.response.result.kind = "add_transaction"
    /\ a.response.result.success = TRUE
    /\ ~a.store.transactions_file.valid

\* C28: a document that cannot be read or written never surfaces as an
\* error: get_balance returns 0 when the account document cannot be read,
\* the transactions returned are empty when the log cannot be read,
\* add_transaction returns success when the log cannot be written, and no
\* -32603 envelope is produced.
C28_IoFailuresSwallowed ==
    /\ (Called(last, "get_balance") /\ ~store.account_file.valid)
          => /\ AnsweredWith(last, {"get_balance"})
             /\ last.envs[1].result.balance = 0
    /\ (Called(last, "list_transactions") /\ ~store.transactions_file.valid)
          => /\ AnsweredWith(last, {"list_transactions"})
             /\ last.envs[1].result.transactions = << >>
    /\ (/\ SingleDispatched(last)
        /\ ~(store.account_file.valid /\ store.transactions_file.valid))
          => /\ SingleAnswered(last)
             /\ "error" \in last.envs[1].members
                   => last.envs[1].error.code # -32603
    /\ (running /\ last = NoExchange)
          => WriteFailureSwallowed(HandleRequest(UnwritableAdd, store, same_dir,
                                                 now, next_id))

\* get_balance was answered 0 on a directory whose account document and log
\* were both cut short
C28_Witness ==
    /\ running
    /\ AnsweredWith(last, {"get_balance"})
    /\ ~store.account_file.valid
    /\ ~store.transactions_file.valid
    /\ last.envs[1].result.balance = 0

\* C29: a dispatched add_transaction request that is answered with an error
\* envelope leaves the transaction log and the balance as they were.
C29_ErrorMeansUnchanged ==
    [][(/\ Called(last', "add_transaction")
        /\ SingleAnswered(last')
        /\ "error" \in last'.envs[1].members)
          => /\ LoadTransactions(store'.transactions_file) = Log
             /\ GetBalance(store') = Balance]_vars

\* an add_transaction that binds, names a category that exists and can be
\* written
PlainAdd ==
    Env("2.0", "7", "add_transaction", "absent", AddParams("num", 5000, "food"))

\* handle_request left the store `after` without having put a fallback in
\* the place of a document of `before` that could not be read, and with
\* every transaction read from `before` still in the log
FallbackNotWrittenBack(before, after) ==
    /\ ~before.transactions_file.valid
          => after.transactions_file = before.transactions_file
    /\ ~before.account_file.valid
          => after.account_file = before.account_file
    /\ \A i \in 1 .. Len(LoadTransactions(before.transactions_file)) :
          LoadTransactions(before.transactions_file)[i]
              \in SeqRange(LoadTransactions(after.transactions_file))

\* C30: when add_transaction fails to read a persisted document, the
\* fallback (the empty log, the zero balance) is not written back over the
\* existing document, and the log keeps every transaction it held.
C30_FailedReadKeepsDocuments ==
    (running /\ last = NoExchange)
        => FallbackNotWrittenBack(store,
               HandleRequest(PlainAdd, store, same_dir, now, next_id).store)

====
